---- MODULE Spec2Model ----
(***************************************************************************)
(* Grad-CAM heatmap computation and heatmap overlay of                     *)
(* src/src/explanation_utils.py, as state machines.                        *)
(*                                                                         *)
(* Numbers are floating-point values modelled as exact fractions <<n, d>>  *)
(* in lowest terms with d > 0, extended with the three IEEE specials a     *)
(* division by zero produces: NaN = <<0, 0>>, +Inf = <<1, 0>> and          *)
(* -Inf = <<-1, 0>>.  Tensors are records [shape, data] with data the      *)
(* elements in row-major order, as numpy and TensorFlow store them.        *)
(***************************************************************************)
EXTENDS Integers, Sequences, FiniteSets, TLC

(***************************************************************************)
(* Bounds of the explored inputs.                                          *)
(***************************************************************************)
MaxH == 2
MaxW == 2
MaxC == 2
MaxCells == 4
MaxLayers == 3
ProbUnits == 4
MaxImg == 2
MaxPixels == 2
MaxHm == 2
MaxHmCells == 4
MaxCalls == 3
MaxImages == 2
ConfUnits == 20
MaxLines == 3
MaxStems == 2
MaxIds == 3
MaxReports == 3
MaxOutside == 2

\* len(CLASS_NAMES): the classifier's output width.
NumClasses == 5

\* Python's None, as a layer name and as a class index.
NoName == 0
NoClass == -1

(***************************************************************************)
(* Floating-point values.                                                  *)
(***************************************************************************)
Abs(x) == IF x < 0 THEN -x ELSE x

Sign(x) == IF x < 0 THEN -1 ELSE IF x > 0 THEN 1 ELSE 0

RECURSIVE GCD(_, _)
GCD(a, b) == IF b = 0 THEN a ELSE GCD(b, a % b)

Norm(n, d) ==
    IF d = 0 THEN <<Sign(n), 0>>
    ELSE LET g == GCD(Abs(n), Abs(d))
             s == Sign(d)
         IN  <<(s * n) \div g, (s * d) \div g>>

F(n) == <<n, 1>>
Zero == <<0, 1>>
One == <<1, 1>>
NaN == <<0, 0>>

IsFinite(a) == a[2] # 0
IsNaN(a) == a = NaN

FAdd(a, b) ==
    IF IsFinite(a) /\ IsFinite(b) THEN Norm(a[1] * b[2] + b[1] * a[2], a[2] * b[2])
    ELSE IF IsNaN(a) \/ IsNaN(b) THEN NaN
    ELSE IF ~IsFinite(a) /\ ~IsFinite(b) /\ a # b THEN NaN
    ELSE IF IsFinite(a) THEN b ELSE a

FMul(a, b) ==
    IF IsFinite(a) /\ IsFinite(b) THEN Norm(a[1] * b[1], a[2] * b[2])
    ELSE IF IsNaN(a) \/ IsNaN(b) \/ a[1] = 0 \/ b[1] = 0 THEN NaN
    ELSE <<Sign(a[1]) * Sign(b[1]), 0>>

\* IEEE division: x / 0 is NaN for x = 0 and an infinity otherwise.
FDiv(a, b) ==
    IF IsNaN(a) \/ IsNaN(b) THEN NaN
    ELSE IF IsFinite(a) /\ IsFinite(b) THEN Norm(a[1] * b[2], a[2] * b[1])
    ELSE IF IsFinite(a) THEN Zero
    ELSE IF IsFinite(b) THEN <<a[1] * (IF b[1] < 0 THEN -1 ELSE 1), 0>>
    ELSE NaN

\* a <= b and a > b; every comparison with NaN is false.
FLe(a, b) ==
    IF IsNaN(a) \/ IsNaN(b) THEN FALSE
    ELSE IF IsFinite(a) /\ IsFinite(b) THEN a[1] * b[2] <= b[1] * a[2]
    ELSE IF IsFinite(a) THEN b[1] > 0
    ELSE IF IsFinite(b) THEN a[1] < 0
    ELSE a[1] <= b[1]

FGt(a, b) == ~IsNaN(a) /\ ~IsNaN(b) /\ ~FLe(a, b)

\* tf.maximum(a, b) and np.max of two elements: NaN propagates.
FMax(a, b) == IF IsNaN(a) \/ IsNaN(b) THEN NaN ELSE IF FLe(a, b) THEN b ELSE a

(***************************************************************************)
(* Tensors.                                                                *)
(***************************************************************************)
RECURSIVE Prod(_)
Prod(s) == IF s = <<>> THEN 1 ELSE Head(s) * Prod(Tail(s))

Tensor(shape, data) == [shape |-> shape, data |-> data]

\* Python's None where a tensor is expected.
NoTensor == [shape |-> <<0>>, data |-> <<>>]

Const(shape, v) == Tensor(shape, [i \in 1..Prod(shape) |-> v])

RECURSIVE SumStride(_, _, _, _)
\* data[first] + data[first + step] + ... , count terms, summed by halves.
SumStride(data, first, step, count) ==
    IF count = 0 THEN Zero
    ELSE IF count = 1 THEN data[first]
    ELSE LET half == count \div 2
         IN  FAdd(SumStride(data, first, step, half),
                  SumStride(data, first + half * step, step, count - half))

RECURSIVE DotRange(_, _, _, _, _)
\* a[base + lo] * w[lo] + ... + a[base + hi] * w[hi], summed by halves.
DotRange(a, base, w, lo, hi) ==
    IF lo > hi THEN Zero
    ELSE IF lo = hi THEN FMul(a[base + lo], w[lo])
    ELSE LET mid == (lo + hi) \div 2
         IN  FAdd(DotRange(a, base, w, lo, mid), DotRange(a, base, w, mid + 1, hi))

Dot(a, base, w, n) == DotRange(a, base, w, 1, n)

RECURSIVE MaxRange(_, _, _)
MaxRange(data, lo, hi) ==
    IF lo = hi THEN data[lo]
    ELSE LET mid == (lo + hi) \div 2
         IN  FMax(MaxRange(data, lo, mid), MaxRange(data, mid + 1, hi))

\* The maximum of data[1..n], n >= 1.
MaxOf(data, n) == MaxRange(data, 1, n)

(***************************************************************************)
(* The classifier, as get_gradcam_heatmap sees it: model.layers, each      *)
(* layer with its unique name and its output_shape (batch axis None = 0).  *)
(***************************************************************************)
\* weights is the revision of the layer's variables: a training step, or a
\* forward pass in training mode, would raise it.
Layer(name, shape) == [name |-> name, output_shape |-> shape, weights |-> 0]

\* model.input: the image size the classifier was built for.
InputShape == <<0, 224, 224, 3>>

ModelOf(shapes) ==
    [layers |-> [i \in 1..Len(shapes) |-> Layer(i, shapes[i])],
     input_shape |-> InputShape]

IsConv(layer) == Len(layer.output_shape) = 4

\* Variant: the scan runs forward and stops at the first four-axis layer.
RECURSIVE ScanFirst(_, _)
ScanFirst(layers, i) ==
    IF i > Len(layers) THEN NoName
    ELSE IF IsConv(layers[i]) THEN layers[i].name
    ELSE ScanFirst(layers, i + 1)

FindFirstConvLayer(layers) == ScanFirst(layers, 1)

RECURSIVE ScanReversed(_, _)
\* for layer in reversed(model.layers): if len(layer.output_shape) == 4: ... break
ScanReversed(layers, i) ==
    IF i = 0 THEN NoName
    ELSE IF IsConv(layers[i]) THEN layers[i].name
    ELSE ScanReversed(layers, i - 1)

FindLastConvLayer(layers) == ScanReversed(layers, Len(layers))

\* model.get_layer(name): the position of the layer of that name, 0 when the
\* lookup raises ValueError (name None, or no layer of that name).
GetLayer(layers, name) ==
    LET hits == {i \in 1..Len(layers) : layers[i].name = name}
    IN  IF name = NoName \/ hits = {} THEN 0
        ELSE CHOOSE i \in hits : \A j \in hits : i <= j

\* Variant: the largest such index when several values are largest.
ArgMaxLast(p) ==
    (CHOOSE i \in 1..Len(p) : \A j \in 1..Len(p) : p[j] < p[i] \/ (p[j] = p[i] /\ j <= i)) - 1

\* tf.argmax(predictions[0]): the index (from 0) of the largest value, the
\* smallest such index when several are largest.
ArgMax(p) ==
    (CHOOSE i \in 1..Len(p) : \A j \in 1..Len(p) : p[j] < p[i] \/ (p[j] = p[i] /\ i <= j)) - 1

\* tf.reduce_mean(grads, axis=(0, 1, 2)) of a (1, H, W, C) tensor.
ReduceMean012(t) ==
    LET c == t.shape[4]
        n == t.shape[1] * t.shape[2] * t.shape[3]
    IN  Tensor(<<c>>, [k \in 1..c |-> FDiv(SumStride(t.data, k, c, n), F(n))])

\* conv_outputs[0]: the first element along the batch axis.
Index0(t) ==
    LET rest == Tail(t.shape)
    IN  Tensor(rest, [i \in 1..Prod(rest) |-> t.data[i]])

\* Variant: the channels are summed without their importance weights.
MatMulNoWeights(a, w) ==
    LET c == a.shape[3]
        n == a.shape[1] * a.shape[2]
    IN  Tensor(<<a.shape[1], a.shape[2], 1>>,
               [p \in 1..n |-> SumStride(a.data, (p - 1) * c + 1, 1, c)])

\* conv_outputs @ pooled_grads[..., tf.newaxis]: (H, W, C) @ (C, 1) -> (H, W, 1)
MatMul(a, w) ==
    LET c == a.shape[3]
        n == a.shape[1] * a.shape[2]
    IN  Tensor(<<a.shape[1], a.shape[2], 1>>,
               [p \in 1..n |-> Dot(a.data, (p - 1) * c, w.data, c)])

\* tf.squeeze(heatmap): every axis of size 1 is removed.
Squeeze(t) == Tensor(SelectSeq(t.shape, LAMBDA d : d # 1), t.data)

\* Variant: negative values are not clipped before the division.
NormalizeNoClip(h) ==
    LET n == Len(h.data)
        m == MaxOf(h.data, n)
    IN  Tensor(h.shape, [i \in 1..n |-> FDiv(h.data[i], m)])

\* Variant: the division is by the sum of the entries, not their maximum.
NormalizeBySum(h) ==
    LET n == Len(h.data)
        m == SumStride(h.data, 1, 1, n)
    IN  Tensor(h.shape, [i \in 1..n |-> FDiv(FMax(h.data[i], Zero), m)])

\* tf.maximum(heatmap, 0) / tf.math.reduce_max(heatmap)
Normalize(h) ==
    LET n == Len(h.data)
        m == MaxOf(h.data, n)
    IN  Tensor(h.shape, [i \in 1..n |-> FDiv(FMax(h.data[i], Zero), m)])

(***************************************************************************)
(* The calls explored.  A call is the model, the arguments, and what the   *)
(* opaque classifier yields for the image: its probability vector (in      *)
(* units of 1/ProbUnits), per layer the activations of that layer (feat)   *)
(* and the gradient of the class score with respect to them (grad), and    *)
(* whether the class score is connected to the layer at all.               *)
(***************************************************************************)
FVals == {F(-1), Zero, One}
GVals == {F(-1), Zero, One}

DenseShape == <<0, NumClasses>>

ConvShapes ==
    {s \in {<<0, h, w, c>> : h \in 1..MaxH, w \in 1..MaxW, c \in 1..MaxC} :
        s[2] * s[3] * s[4] <= MaxCells}

LayerPalette == {DenseShape, <<0, 2, 3>>, <<0, 2, 2, 1>>, <<0, 1, 2, 2>>}

ProbVectors ==
    {p \in [1..NumClasses -> 0..ProbUnits] :
        p[1] + p[2] + p[3] + p[4] + p[5] = ProbUnits}

Cells(shape) == Prod(Tail(shape))

\* One call: the classifier's layers, what the classifier yields for each
\* image it may be given, the image batch (which image, and its shape) and the
\* two optional arguments. grad[i] is the gradient of a class score with
\* respect to layer i's output; the families below use one gradient for every
\* class.
Call(m, feat, grad, probs, connected, cls, name) ==
    [model |-> m,
     classifier |->
         <<[predictions |-> probs, feat |-> feat,
            grad |-> [i \in DOMAIN grad |-> [c \in 1..NumClasses |-> grad[i]]],
            connected |-> connected]>>,
     image |-> [id |-> 1, shape |-> <<1>> \o Tail(m.input_shape)],
     pred_class |-> cls,
     last_conv_layer_name |-> name]

DefaultProbs == [i \in 1..NumClasses |-> IF i = 2 THEN ProbUnits ELSE 0]

DefaultModel == ModelOf(<<<<0, 2, 2, 1>>, DenseShape>>)

\* The names a caller may pass for a model of these layers: None, the name of
\* a four-axis layer, or a name no layer has.
NamesFor(shapes) ==
    {NoName, Len(shapes) + 1} \cup {i \in 1..Len(shapes) : Len(shapes[i]) = 4}

LayerCall(shapes, conn, name) ==
    Call(ModelOf(shapes),
         [i \in 1..Len(shapes) |-> [j \in 1..Cells(shapes[i]) |-> F(i)]],
         [i \in 1..Len(shapes) |-> [j \in 1..Cells(shapes[i]) |-> One]],
         DefaultProbs, conn, NoClass, name)

ClassCall(probs, cls) ==
    Call(DefaultModel,
         <<[j \in 1..4 |-> One], <<>>>>, <<[j \in 1..4 |-> One], <<>>>>,
         probs, TRUE, cls, NoName)

TensorCall(shape, f, g) ==
    Call(ModelOf(<<shape, DenseShape>>), <<f, <<>>>>, <<g, <<>>>>,
         DefaultProbs, TRUE, NoClass, NoName)

\* An image batch whose height or width is not the classifier's.
MismatchShapes == {<<1, 100, 224, 3>>, <<1, 224, 100, 3>>, <<1, 512, 512, 3>>}

MismatchCall(shape, cls, name) ==
    [ClassCall(DefaultProbs, cls) EXCEPT !.image.shape = shape,
                                         !.last_conv_layer_name = name]

\* A (7, 7, 32) feature map of ones whose gradient is 0.5 everywhere, so that
\* the Channel Importance Vector is 0.5 in every channel; 5 output classes.
ScenarioCall ==
    Call(ModelOf(<<<<0, 7, 7, 32>>, DenseShape>>),
         <<[j \in 1..(7 * 7 * 32) |-> One], <<>>>>,
         <<[j \in 1..(7 * 7 * 32) |-> <<1, 2>>], <<>>>>,
         DefaultProbs, TRUE, NoClass, NoName)

(***************************************************************************)
(* get_gradcam_heatmap, statement by statement.                            *)
(***************************************************************************)
VARIABLES
    model,                 \* the classifier's layers
    classifier,            \* what the classifier yields for each image
    log,                   \* history: the calls completed so far
    net,                   \* what the classifier yields for the image
    call,                  \* history: the arguments as they were at entry
    pc,                    \* the statement to execute next
    last_conv_layer_name,  \* the local of that name
    layer,                 \* position of the layer grad_model instruments
    pred_class,            \* the local of that name
    class_channel,         \* the class whose score is differentiated
    conv_outputs, predictions, grads, pooled_grads, heatmap,
    raw,                   \* history: heatmap as line 55 left it
    ret,                   \* the returned array
    err                    \* the exception raised

gvars == <<model, classifier, log, net, call, pc, last_conv_layer_name, layer, pred_class,
           class_channel, conv_outputs, predictions, grads, pooled_grads,
           heatmap, raw, ret, err>>

\* overlay_heatmap's state.
VARIABLES
    opc,             \* the statement to execute next
    ocall,           \* history: the arguments as they were at entry
    arg_image,       \* the caller's image array
    arg_heatmap,     \* the caller's heatmap array
    alpha,
    image,           \* the local of that name
    hmap,            \* the local named heatmap
    overlaid_image   \* the returned array

ovars == <<opc, ocall, arg_image, arg_heatmap, alpha, image, hmap, overlaid_image>>

\* generate_single_patient_report's state.
VARIABLES
    rpc,              \* the statement to execute next
    env,              \* what the files, the model and the collaborators will do
    predicted_class,
    gradcam_heatmap,  \* the local of that name
    gradcam_calls,    \* history: calls of generate_gradcam_visualization
    gradcam_error,    \* history: the exception that call raised
    report,           \* the report create_patient_report wrote
    result            \* the value returned

rvars == <<rpc, env, predicted_class, gradcam_heatmap, gradcam_calls, gradcam_error,
           report, result>>

\* The state of one call of a function of model_utils.py or html_generator.py
\* that maps a prediction to a label, a level or a text.
VARIABLES
    upc,    \* "call" before the function has run, "returned" after
    ufn,    \* the function called
    uarg,   \* its arguments
    uret    \* the value returned

uvars == <<upc, ufn, uarg, uret>>

\* format_explanation_text_to_html's state.
VARIABLES
    fpc,              \* "loop" inside the for loop, "returned" after
    lines,            \* explanation_text.split('\n'), each line stripped
    line_no,          \* the number of lines the loop has taken
    html,             \* the tags appended so far
    current_section,  \* whether a section header has been seen
    in_list

fvars == <<fpc, lines, line_no, html, current_section, in_list>>

\* load_batch_images's state.
VARIABLES
    bpc,        \* "loop" inside the for loop, "returned" or "raised" after
    image_ids,
    files,      \* the files of image_dir
    id_no,      \* the number of ids the loop has taken
    images,
    berr        \* the exception that left the function

bvars == <<bpc, image_ids, files, id_no, images, berr>>

\* generate_local_pdf_from_html.main's state.
VARIABLES
    ppc,          \* the statement to execute next
    penv,         \* the reports directory and what reading, writing and converting will do
    temp_exists,  \* temp_combined_report.html is on disk
    pdf_exists,   \* explanation_local.pdf has been produced
    exit_status   \* the process's exit status

pvars == <<ppc, penv, temp_exists, pdf_exists, exit_status>>

xvars == <<uvars, fvars, bvars, pvars>>

vars == <<gvars, ovars, rvars, xvars>>

NoArg == [probabilities |-> <<>>, predicted_class |-> NoClass, confidence |-> Zero]

NoResult == [returned |-> FALSE]

\* No such function is running.
UIdle ==
    /\ upc = "idle"
    /\ ufn = "none"
    /\ uarg = NoArg
    /\ uret = NoResult

\* format_explanation_text_to_html is not running.
FIdle ==
    /\ fpc = "idle"
    /\ lines = <<>>
    /\ line_no = 0
    /\ html = <<>>
    /\ current_section = FALSE
    /\ in_list = FALSE

\* load_batch_images is not running.
BIdle ==
    /\ bpc = "idle"
    /\ image_ids = <<>>
    /\ files = {}
    /\ id_no = 0
    /\ images = <<>>
    /\ berr = "none"

NoExit == -1

\* main is not running.
PIdle ==
    /\ ppc = "idle"
    /\ penv = <<>>
    /\ temp_exists = FALSE
    /\ pdf_exists = FALSE
    /\ exit_status = NoExit

XIdle == UIdle /\ FIdle /\ BIdle /\ PIdle

\* No report has been written.
NoReport == [written |-> FALSE, gradcam_heatmap |-> "unset"]

\* generate_single_patient_report is not running.
RIdle ==
    /\ rpc = "idle"
    /\ env = <<>>
    /\ predicted_class = NoClass
    /\ gradcam_heatmap = "unset"
    /\ gradcam_calls = 0
    /\ gradcam_error = "none"
    /\ report = NoReport
    /\ result = "none"

\* overlay_heatmap is not running.
OIdle ==
    /\ opc = "idle"
    /\ ocall = [image |-> NoTensor, heatmap |-> NoTensor, alpha |-> Zero]
    /\ arg_image = NoTensor
    /\ arg_heatmap = NoTensor
    /\ alpha = Zero
    /\ image = NoTensor
    /\ hmap = NoTensor
    /\ overlaid_image = NoTensor


Start(c) ==
    /\ model = c.model
    /\ classifier = c.classifier
    /\ log = <<>>
    /\ net = c.classifier[c.image.id]
    /\ call = [model |-> c.model,
               image |-> c.image,
               pred_class |-> c.pred_class,
               last_conv_layer_name |-> c.last_conv_layer_name]
    /\ pc = "select_layer"
    /\ last_conv_layer_name = c.last_conv_layer_name
    /\ layer = 0
    /\ pred_class = c.pred_class
    /\ class_channel = NoClass
    /\ conv_outputs = NoTensor
    /\ predictions = <<>>
    /\ grads = NoTensor
    /\ pooled_grads = NoTensor
    /\ heatmap = NoTensor
    /\ raw = NoTensor
    /\ ret = NoTensor
    /\ err = "none"

\* The calls explored: every layer list ending in the classification head, with
\* the layer name given or not and the score connected or not; every probability vector, with the target class
\* given or not; every feature map and gradient of every shape within the
\* bounds; image batches whose height or width is not the classifier's; and the
\* (7, 7, 32) scenario.
GInit ==
    \/ \E n \in 0..MaxLayers : \E body \in [1..n -> LayerPalette] :
           \E conn \in BOOLEAN, name \in NamesFor(body \o <<DenseShape>>) :
               Start(LayerCall(body \o <<DenseShape>>, conn, name))
    \/ \E probs \in ProbVectors, cls \in {NoClass} \cup 0..(NumClasses - 1) :
           Start(ClassCall(probs, cls))
    \/ \E shape \in ConvShapes :
           \E f \in [1..Cells(shape) -> FVals], g \in [1..Cells(shape) -> GVals] :
               Start(TensorCall(shape, f, g))
    \/ \E shape \in MismatchShapes, cls \in {NoClass, 0}, name \in NamesFor(<<<<0, 2, 2, 1>>, DenseShape>>) :
           Start(MismatchCall(shape, cls, name))
    \/ Start(ScenarioCall)

Raise(e) ==
    /\ pc' = "raised"
    /\ err' = e

\* Lines 27-31: the default layer.
SelectLayer ==
    /\ pc = "select_layer"
    /\ last_conv_layer_name' =
           IF last_conv_layer_name = NoName THEN FindLastConvLayer(model.layers)
           ELSE last_conv_layer_name
    /\ pc' = "grad_model"
    /\ UNCHANGED <<model, classifier, log, net, call, layer, pred_class, class_channel, conv_outputs,
                   predictions, grads, pooled_grads, heatmap, raw, ret, err>>
    /\ UNCHANGED ovars
    /\ UNCHANGED rvars
    /\ UNCHANGED xvars

\* Lines 34-37: model.get_layer raises ValueError for None and for an unknown name.
BuildGradModel ==
    /\ pc = "grad_model"
    /\ LET i == GetLayer(model.layers, last_conv_layer_name)
       IN  IF i = 0
           THEN Raise("ValueError") /\ UNCHANGED layer
           ELSE pc' = "forward" /\ layer' = i /\ UNCHANGED err
    /\ UNCHANGED <<model, classifier, log, net, call, last_conv_layer_name, pred_class, class_channel,
                   conv_outputs, predictions, grads, pooled_grads, heatmap, raw, ret>>
    /\ UNCHANGED ovars
    /\ UNCHANGED rvars
    /\ UNCHANGED xvars

\* The image batch has the height, width and channels the classifier takes.
ShapeFits(m, img) == Tail(img.shape) = Tail(m.input_shape)

\* Variant: grad_model(image, training=True), which updates the layers'
\* moving statistics.
ForwardTraining ==
    /\ pc = "forward"
    /\ model' = [model EXCEPT !.layers =
                     [i \in 1..Len(model.layers) |->
                         [model.layers[i] EXCEPT !.weights = @ + 1]]]
    /\ IF ShapeFits(model, call.image)
       THEN /\ conv_outputs' =
                   Tensor(<<1>> \o Tail(model.layers[layer].output_shape), net.feat[layer])
            /\ predictions' = net.predictions
            /\ pred_class' = IF pred_class = NoClass THEN ArgMax(predictions') ELSE pred_class
            /\ class_channel' = pred_class'
            /\ pc' = "gradient"
            /\ UNCHANGED err
       ELSE /\ Raise("ValueError")
            /\ UNCHANGED <<conv_outputs, predictions, pred_class, class_channel>>
    /\ UNCHANGED <<classifier, log, net, call, last_conv_layer_name, layer, grads,
                   pooled_grads, heatmap, raw, ret>>
    /\ UNCHANGED ovars
    /\ UNCHANGED rvars
    /\ UNCHANGED xvars

\* Lines 40-44: the forward pass under the tape, and the class to differentiate.
\* Line 41 is the first statement that looks at the image: Keras raises
\* ValueError from grad_model(image) when the image's shape is not the
\* model's input shape.
Forward ==
    /\ pc = "forward"
    /\ IF ShapeFits(model, call.image)
       THEN /\ conv_outputs' =
                   Tensor(<<1>> \o Tail(model.layers[layer].output_shape), net.feat[layer])
            /\ predictions' = net.predictions
            /\ pred_class' = IF pred_class = NoClass THEN ArgMax(predictions') ELSE pred_class
            /\ class_channel' = pred_class'
            /\ pc' = "gradient"
            /\ UNCHANGED err
       ELSE /\ Raise("ValueError")
            /\ UNCHANGED <<conv_outputs, predictions, pred_class, class_channel>>
    /\ UNCHANGED <<model, classifier, log, net, call, last_conv_layer_name, layer, grads,
                   pooled_grads, heatmap, raw, ret>>
    /\ UNCHANGED ovars
    /\ UNCHANGED rvars
    /\ UNCHANGED xvars

\* Line 47: tape.gradient gives None when the score does not depend on the layer.
Gradient ==
    /\ pc = "gradient"
    /\ grads' = IF net.connected
                THEN Tensor(conv_outputs.shape, net.grad[layer][class_channel + 1])
                ELSE NoTensor
    /\ pc' = "pool"
    /\ UNCHANGED <<model, classifier, log, net, call, last_conv_layer_name, layer, pred_class,
                   class_channel, conv_outputs, predictions, pooled_grads, heatmap,
                   raw, ret, err>>
    /\ UNCHANGED ovars
    /\ UNCHANGED rvars
    /\ UNCHANGED xvars

\* Line 50: tf.reduce_mean raises ValueError for None.
Pool ==
    /\ pc = "pool"
    /\ IF grads = NoTensor
       THEN Raise("ValueError") /\ UNCHANGED pooled_grads
       ELSE pc' = "weight" /\ pooled_grads' = ReduceMean012(grads) /\ UNCHANGED err
    /\ UNCHANGED <<model, classifier, log, net, call, last_conv_layer_name, layer, pred_class,
                   class_channel, conv_outputs, predictions, grads, heatmap, raw, ret>>
    /\ UNCHANGED ovars
    /\ UNCHANGED rvars
    /\ UNCHANGED xvars

\* Lines 53-55: the raw heatmap.
Weight ==
    /\ pc = "weight"
    /\ conv_outputs' = Index0(conv_outputs)
    /\ heatmap' = Squeeze(MatMul(conv_outputs', pooled_grads))
    /\ raw' = heatmap'
    /\ pc' = "normalize"
    /\ UNCHANGED <<model, classifier, log, net, call, last_conv_layer_name, layer, pred_class,
                   class_channel, predictions, grads, pooled_grads, ret, err>>
    /\ UNCHANGED ovars
    /\ UNCHANGED rvars
    /\ UNCHANGED xvars

\* Lines 58-60: clip, divide by the maximum, return.
NormalizeReturn ==
    /\ pc = "normalize"
    /\ heatmap' = Normalize(heatmap)
    /\ ret' = heatmap'
    /\ pc' = "returned"
    /\ UNCHANGED <<model, classifier, log, net, call, last_conv_layer_name, layer, pred_class,
                   class_channel, conv_outputs, predictions, grads, pooled_grads,
                   raw, err>>
    /\ UNCHANGED ovars
    /\ UNCHANGED rvars
    /\ UNCHANGED xvars

Init == GInit /\ OIdle /\ RIdle /\ XIdle

(***************************************************************************)
(* Several calls on one classifier: each call starts with fresh locals,    *)
(* and the caller keeps what each call returned or raised.                 *)
(***************************************************************************)
CallsModel == ModelOf(<<<<0, 2, 2, 1>>, <<0, 1, 2, 2>>, DenseShape>>)

\* What the classifier of weights k yields for image i: the class scores, each
\* layer's output and, per class, the gradient of the score. The second
\* classifier's score for the second image does not depend on its layers.
Response(k, i) ==
    [predictions |->
         [j \in 1..NumClasses |-> IF j = ((i + k) % NumClasses) + 1 THEN ProbUnits ELSE 0],
     feat |->
         [l \in 1..Len(CallsModel.layers) |->
             [j \in 1..Cells(CallsModel.layers[l].output_shape) |-> F((i + j + l) % 3)]],
     grad |->
         [l \in 1..Len(CallsModel.layers) |->
             [c \in 1..NumClasses |->
                 [j \in 1..Cells(CallsModel.layers[l].output_shape) |->
                     F(((c + j + k) % 3) - 1)]]],
     connected |-> ~(k = 2 /\ i = 2)]

Table(k) == [i \in 1..MaxImages |-> Response(k, i)]

\* The arguments of one call: which image, the target class given or not, the
\* layer name given or not.
CallArgs == [id : 1..MaxImages, cls : {NoClass, 0}, name : {NoName, 1}]

ArgsOf(m, a) ==
    [model |-> m,
     image |-> [id |-> a.id, shape |-> <<1>> \o Tail(m.input_shape)],
     pred_class |-> a.cls,
     last_conv_layer_name |-> a.name]

GInitCalls ==
    \E k \in 1..2, a \in CallArgs :
        Start([classifier |-> Table(k)] @@ ArgsOf(CallsModel, a))

\* Variant: a call that is given no layer name reuses the name the call before
\* it ended with.
NextCallKeepingLayer ==
    /\ pc \in {"returned", "raised"}
    /\ Len(log) < MaxCalls - 1
    /\ log' = Append(log, [call |-> call, pc |-> pc, ret |-> ret, err |-> err])
    /\ \E a \in CallArgs :
           /\ call' = ArgsOf(model, a)
           /\ net' = classifier[a.id]
           /\ last_conv_layer_name' =
                  IF a.name = NoName THEN last_conv_layer_name ELSE a.name
           /\ pred_class' = a.cls
    /\ pc' = "select_layer"
    /\ layer' = 0
    /\ class_channel' = NoClass
    /\ conv_outputs' = NoTensor
    /\ predictions' = <<>>
    /\ grads' = NoTensor
    /\ pooled_grads' = NoTensor
    /\ heatmap' = NoTensor
    /\ raw' = NoTensor
    /\ ret' = NoTensor
    /\ err' = "none"
    /\ UNCHANGED <<model, classifier>>
    /\ UNCHANGED ovars
    /\ UNCHANGED rvars
    /\ UNCHANGED xvars

\* Line 13, once more: the caller keeps the outcome and calls again; the
\* parameters are bound to the new arguments and every local starts unset.
NextCall ==
    /\ pc \in {"returned", "raised"}
    /\ Len(log) < MaxCalls - 1
    /\ log' = Append(log, [call |-> call, pc |-> pc, ret |-> ret, err |-> err])
    /\ \E a \in CallArgs :
           /\ call' = ArgsOf(model, a)
           /\ net' = classifier[a.id]
           /\ last_conv_layer_name' = a.name
           /\ pred_class' = a.cls
    /\ pc' = "select_layer"
    /\ layer' = 0
    /\ class_channel' = NoClass
    /\ conv_outputs' = NoTensor
    /\ predictions' = <<>>
    /\ grads' = NoTensor
    /\ pooled_grads' = NoTensor
    /\ heatmap' = NoTensor
    /\ raw' = NoTensor
    /\ ret' = NoTensor
    /\ err' = "none"
    /\ UNCHANGED <<model, classifier>>
    /\ UNCHANGED ovars
    /\ UNCHANGED rvars
    /\ UNCHANGED xvars

InitCalls == GInitCalls /\ OIdle /\ RIdle /\ XIdle

Next ==
    \/ SelectLayer
    \/ BuildGradModel
    \/ Forward
    \/ Gradient
    \/ Pool
    \/ Weight
    \/ NormalizeReturn

Spec == Init /\ [][Next]_vars

NextCalls ==
    \/ SelectLayer
    \/ BuildGradModel
    \/ Forward
    \/ Gradient
    \/ Pool
    \/ Weight
    \/ NormalizeReturn
    \/ NextCall

SpecCalls == InitCalls /\ [][NextCalls]_vars

(***************************************************************************)
(* overlay_heatmap.                                                        *)
(***************************************************************************)
\* get_gradcam_heatmap is not running.
GIdle ==
    /\ model = ModelOf(<<>>)
    /\ classifier = <<>>
    /\ log = <<>>
    /\ net = [predictions |-> <<>>, feat |-> <<>>, grad |-> <<>>, connected |-> FALSE]
    /\ call = [model |-> ModelOf(<<>>),
               image |-> [id |-> 0, shape |-> <<>>],
               pred_class |-> NoClass,
               last_conv_layer_name |-> NoName]
    /\ pc = "idle"
    /\ last_conv_layer_name = NoName
    /\ layer = 0
    /\ pred_class = NoClass
    /\ class_channel = NoClass
    /\ conv_outputs = NoTensor
    /\ predictions = <<>>
    /\ grads = NoTensor
    /\ pooled_grads = NoTensor
    /\ heatmap = NoTensor
    /\ raw = NoTensor
    /\ ret = NoTensor
    /\ err = "none"

Floor(a) == a[1] \div a[2]

Lerp(a, b, t) == FAdd(FMul(a, FAdd(One, FMul(F(-1), t))), FMul(b, t))

\* Bilinear source position of destination index d (from 0) along an axis
\* resized from srcN to dstN samples: (d + 0.5) * srcN / dstN - 0.5, clamped
\* to the axis.  i0 and i1 are the neighbours (from 0), t the weight of i1.
ResizeCoord(d, srcN, dstN) ==
    LET f == Norm((2 * d + 1) * srcN - dstN, 2 * dstN)
        lo == Floor(f)
    IN  IF lo < 0 THEN [i0 |-> 0, i1 |-> 0, t |-> Zero]
        ELSE IF lo >= srcN - 1 THEN [i0 |-> srcN - 1, i1 |-> srcN - 1, t |-> Zero]
        ELSE [i0 |-> lo, i1 |-> lo + 1, t |-> FAdd(f, F(-lo))]

\* Variant: the target size is passed as (height, width).
ResizeSwapped(src, width, height) ==
    LET sh == src.shape[1]
        sw == src.shape[2]
        At(y, x) == src.data[y * sw + x + 1]
        Pixel(p) ==
            LET cy == ResizeCoord((p - 1) \div height, sh, width)
                cx == ResizeCoord((p - 1) % height, sw, height)
            IN  Lerp(Lerp(At(cy.i0, cx.i0), At(cy.i0, cx.i1), cx.t),
                     Lerp(At(cy.i1, cx.i0), At(cy.i1, cx.i1), cx.t),
                     cy.t)
    IN  Tensor(<<width, height>>, [p \in 1..(height * width) |-> Pixel(p)])

\* cv2.resize(src, (width, height)) of a 2-D array, INTER_LINEAR.
Resize(src, width, height) ==
    LET sh == src.shape[1]
        sw == src.shape[2]
        At(y, x) == src.data[y * sw + x + 1]
        Pixel(p) ==
            LET cy == ResizeCoord((p - 1) \div width, sh, height)
                cx == ResizeCoord((p - 1) % width, sw, width)
            IN  Lerp(Lerp(At(cy.i0, cx.i0), At(cy.i0, cx.i1), cx.t),
                     Lerp(At(cy.i1, cx.i0), At(cy.i1, cx.i1), cx.t),
                     cy.t)
    IN  Tensor(<<height, width>>, [p \in 1..(height * width) |-> Pixel(p)])

\* np.uint8(x) of a float in [0, 256): the fraction is dropped.
ToUint8(x) == Floor(x) % 256

Clamp(x, lo, hi) == IF x < lo THEN lo ELSE IF x > hi THEN hi ELSE x

Min2(a, b) == IF a <= b THEN a ELSE b

\* One 8-bit channel of COLORMAP_JET at index i: 255 * clamp(min(4v + up,
\* -4v + down)) for v = i / 255, rounded; up2 and down2 are 510 * up, 510 * down.
JetChannel(i, up2, down2) ==
    (Clamp(Min2(8 * i + up2, down2 - 8 * i), 0, 510) + 1) \div 2

\* cv2.applyColorMap(., COLORMAP_JET): the <<blue, green, red>> bytes of index i.
JetBGR(i) ==
    <<JetChannel(i, 255, 1275), JetChannel(i, -255, 1785), JetChannel(i, -765, 2295)>>

\* Variant: the channels stay in the colour map's <<blue, green, red>> order.
ColorizeNoSwap(h) ==
    LET Bgr(p) == JetBGR(ToUint8(FMul(F(255), h.data[p])))
    IN  Tensor(h.shape \o <<3>>,
               [k \in 1..(3 * Len(h.data)) |->
                   FDiv(F(Bgr(((k - 1) \div 3) + 1)[((k - 1) % 3) + 1]), F(255))])

\* Lines 80-83: uint8(255 * heatmap), colour map, BGR -> RGB, / 255.0.
Colorize(h) ==
    LET Rgb(p) ==
            LET bgr == JetBGR(ToUint8(FMul(F(255), h.data[p])))
            IN  <<bgr[3], bgr[2], bgr[1]>>
    IN  Tensor(h.shape \o <<3>>,
               [k \in 1..(3 * Len(h.data)) |->
                   FDiv(F(Rgb(((k - 1) \div 3) + 1)[((k - 1) % 3) + 1]), F(255))])

\* Variant: the image is blended as given.
NoRescale(img) == img

\* Variant: the image is divided as soon as its maximum reaches 1.0.
RescaleAtLeastOne(img) ==
    IF FLe(One, MaxOf(img.data, Len(img.data)))
    THEN Tensor(img.shape, [k \in 1..Len(img.data) |-> FDiv(img.data[k], F(255))])
    ELSE img

\* Lines 86-87: if image.max() > 1.0: image = image / 255.0
Rescale(img) ==
    IF FGt(MaxOf(img.data, Len(img.data)), One)
    THEN Tensor(img.shape, [k \in 1..Len(img.data) |-> FDiv(img.data[k], F(255))])
    ELSE img

\* Variant: the image keeps its full weight.
BlendNoComplement(h, img, a) ==
    Tensor(img.shape,
           [k \in 1..Len(img.data) |-> FAdd(FMul(h.data[k], a), img.data[k])])

\* Variant: the two blending weights are exchanged.
BlendSwapped(h, img, a) ==
    Tensor(img.shape,
           [k \in 1..Len(img.data) |->
               FAdd(FMul(h.data[k], FAdd(One, FMul(F(-1), a))), FMul(img.data[k], a))])

\* Line 90: heatmap * alpha + image * (1 - alpha)
Blend(h, img, a) ==
    Tensor(img.shape,
           [k \in 1..Len(img.data) |->
               FAdd(FMul(h.data[k], a), FMul(img.data[k], FAdd(One, FMul(F(-1), a))))])

\* The pixel colours, heatmap values and blending weights explored: colours
\* of a [0, 1] image and of a [0, 255] image; 0.4 is the default weight and
\* 0.5 the weight create_simple_heatmap_overlay passes.
Colours ==
    {<<Zero, <<1, 2>>, One>>, <<One, One, One>>,
     <<F(255), F(128), Zero>>, <<F(2), One, F(40)>>}
HVals == {Zero, <<1, 2>>, One}
Alphas == {Zero, <<2, 5>>, <<1, 2>>, One}

ImageShapes ==
    {s \in {<<h, w, 3>> : h \in 1..MaxImg, w \in 1..MaxImg} : s[1] * s[2] <= MaxPixels}

HeatmapShapes ==
    {s \in {<<h, w>> : h \in 1..MaxHm, w \in 1..MaxHm} : s[1] * s[2] <= MaxHmCells}

\* The image whose pixel p has colour px[p].
ImageOf(shape, px) ==
    Tensor(shape, [k \in 1..(3 * shape[1] * shape[2]) |-> px[((k - 1) \div 3) + 1][((k - 1) % 3) + 1]])

OInit ==
    \E si \in ImageShapes, sh \in HeatmapShapes, a \in Alphas :
        \E px \in [1..(si[1] * si[2]) -> Colours], hv \in [1..(sh[1] * sh[2]) -> HVals] :
            /\ opc = "resize"
            /\ ocall = [image |-> ImageOf(si, px), heatmap |-> Tensor(sh, hv), alpha |-> a]
            /\ arg_image = ImageOf(si, px)
            /\ arg_heatmap = Tensor(sh, hv)
            /\ alpha = a
            /\ image = arg_image
            /\ hmap = arg_heatmap
            /\ overlaid_image = NoTensor

\* Line 77.
ResizeHeatmap ==
    /\ opc = "resize"
    /\ hmap' = Resize(hmap, image.shape[2], image.shape[1])
    /\ opc' = "colorize"
    /\ UNCHANGED <<ocall, arg_image, arg_heatmap, alpha, image, overlaid_image>>
    /\ UNCHANGED gvars
    /\ UNCHANGED rvars
    /\ UNCHANGED xvars

\* Lines 80-83.
ColorizeHeatmap ==
    /\ opc = "colorize"
    /\ hmap' = Colorize(hmap)
    /\ opc' = "rescale"
    /\ UNCHANGED <<ocall, arg_image, arg_heatmap, alpha, image, overlaid_image>>
    /\ UNCHANGED gvars
    /\ UNCHANGED rvars
    /\ UNCHANGED xvars

\* Variant: image /= 255.0, which divides the caller's array in place.
RescaleImageInPlace ==
    /\ opc = "rescale"
    /\ image' = Rescale(image)
    /\ arg_image' = Rescale(image)
    /\ opc' = "blend"
    /\ UNCHANGED <<ocall, arg_heatmap, alpha, hmap, overlaid_image>>
    /\ UNCHANGED gvars
    /\ UNCHANGED rvars
    /\ UNCHANGED xvars

\* Lines 86-87.
RescaleImage ==
    /\ opc = "rescale"
    /\ image' = Rescale(image)
    /\ opc' = "blend"
    /\ UNCHANGED <<ocall, arg_image, arg_heatmap, alpha, hmap, overlaid_image>>
    /\ UNCHANGED gvars
    /\ UNCHANGED rvars
    /\ UNCHANGED xvars

\* Lines 90-92.
BlendReturn ==
    /\ opc = "blend"
    /\ overlaid_image' = Blend(hmap, image, alpha)
    /\ opc' = "returned"
    /\ UNCHANGED <<ocall, arg_image, arg_heatmap, alpha, image, hmap>>
    /\ UNCHANGED gvars
    /\ UNCHANGED rvars
    /\ UNCHANGED xvars

InitOverlay == GIdle /\ OInit /\ RIdle /\ XIdle

NextOverlay ==
    \/ ResizeHeatmap
    \/ ColorizeHeatmap
    \/ RescaleImage
    \/ BlendReturn

SpecOverlay == InitOverlay /\ [][NextOverlay]_vars

(***************************************************************************)
(* generate_single_patient_report (generate_patient_report.py).            *)
(***************************************************************************)
\* The ways the heatmap computation can end: a heatmap, or one of its fatal
\* error kinds.
GradcamOutcomes ==
    {"heatmap", "LayerNotFound", "GradientComputationFailed", "ImageShapeMismatch"}

\* explanation_gen.generate_gradcam_visualization(img_array, predicted_class):
\* the heatmap, or the error raised.
GenerateGradcamVisualization(e) ==
    IF e.gradcam = "heatmap"
    THEN [raised |-> "none", value |-> "heatmap"]
    ELSE [raised |-> e.gradcam, value |-> "unset"]

\* html_gen.create_patient_report(...): the path of the report written, None,
\* or an exception.
CreatePatientReport(e) == e.render

Envs ==
    [model_exists : BOOLEAN, image_exists : BOOLEAN,
     load_model : {"ok", "raises"}, load_image : {"ok", "None"},
     predict : {"ok", "raises"}, class : 0..(NumClasses - 1),
     gradcam : GradcamOutcomes, render : {"path", "None", "raises"}]

RInit ==
    /\ rpc = "check_files"
    /\ env \in Envs
    /\ predicted_class = NoClass
    /\ gradcam_heatmap = "unset"
    /\ gradcam_calls = 0
    /\ gradcam_error = "none"
    /\ report = NoReport
    /\ result = "none"

Return(v) ==
    /\ rpc' = "done"
    /\ result' = v

\* Lines 66-74: both files must exist.
CheckFiles ==
    /\ rpc = "check_files"
    /\ IF env.model_exists /\ env.image_exists
       THEN rpc' = "load_model" /\ UNCHANGED result
       ELSE Return(FALSE)
    /\ UNCHANGED <<env, predicted_class, gradcam_heatmap, gradcam_calls, gradcam_error,
                   report>>
    /\ UNCHANGED <<gvars, ovars>>
    /\ UNCHANGED xvars

\* Line 78; an exception is caught at lines 155-157.
LoadModel ==
    /\ rpc = "load_model"
    /\ IF env.load_model = "ok"
       THEN rpc' = "load_image" /\ UNCHANGED result
       ELSE Return(FALSE)
    /\ UNCHANGED <<env, predicted_class, gradcam_heatmap, gradcam_calls, gradcam_error,
                   report>>
    /\ UNCHANGED <<gvars, ovars>>
    /\ UNCHANGED xvars

\* Lines 82-84: load_and_preprocess_image gives None for an unreadable image.
LoadImage ==
    /\ rpc = "load_image"
    /\ IF env.load_image = "ok"
       THEN rpc' = "predict" /\ UNCHANGED result
       ELSE Return(FALSE)
    /\ UNCHANGED <<env, predicted_class, gradcam_heatmap, gradcam_calls, gradcam_error,
                   report>>
    /\ UNCHANGED <<gvars, ovars>>
    /\ UNCHANGED xvars

\* Lines 88-90; an exception is caught at lines 155-157.
Predict ==
    /\ rpc = "predict"
    /\ IF env.predict = "ok"
       THEN rpc' = "explain" /\ predicted_class' = env.class /\ UNCHANGED result
       ELSE Return(FALSE) /\ UNCHANGED predicted_class
    /\ UNCHANGED <<env, gradcam_heatmap, gradcam_calls, gradcam_error, report>>
    /\ UNCHANGED <<gvars, ovars>>
    /\ UNCHANGED xvars

\* Lines 112-119: the try around the Grad-CAM call; its except clause prints a
\* warning and sets gradcam_heatmap = None.
Explain ==
    /\ rpc = "explain"
    /\ gradcam_calls' = gradcam_calls + 1
    /\ LET r == GenerateGradcamVisualization(env)
       IN  IF r.raised = "none"
           THEN gradcam_heatmap' = r.value /\ UNCHANGED gradcam_error
           ELSE gradcam_heatmap' = "None" /\ gradcam_error' = r.raised
    /\ rpc' = "render"
    /\ UNCHANGED <<env, predicted_class, report, result>>
    /\ UNCHANGED <<gvars, ovars>>
    /\ UNCHANGED xvars

\* Lines 137-153: the report is written with gradcam_heatmap as it stands;
\* True for a path, False for None; an exception is caught at lines 155-157.
Render ==
    /\ rpc = "render"
    /\ LET report_path == CreatePatientReport(env)
       IN  /\ report' = IF report_path = "path"
                        THEN [written |-> TRUE, gradcam_heatmap |-> gradcam_heatmap]
                        ELSE NoReport
           /\ Return(report_path = "path")
    /\ UNCHANGED <<env, predicted_class, gradcam_heatmap, gradcam_calls, gradcam_error>>
    /\ UNCHANGED <<gvars, ovars>>
    /\ UNCHANGED xvars

InitReport == GIdle /\ OIdle /\ RInit /\ XIdle

NextReport ==
    \/ CheckFiles
    \/ LoadModel
    \/ LoadImage
    \/ Predict
    \/ Explain
    \/ Render

SpecReport == InitReport /\ [][NextReport]_vars

(***************************************************************************)
(* predict_single, get_confidence_level, get_recommendation and            *)
(* interpret_prediction_simple (model_utils.py); get_patient_explanation   *)
(* and get_next_steps (html_generator.py).                                 *)
(***************************************************************************)
CLASS_NAMES == <<"No DR", "Mild", "Moderate", "Severe", "Proliferative DR">>

\* Variant: the confidence is the first probability.
PredictSingleFirstProbability(probabilities) ==
    LET class == ArgMax(probabilities)
    IN  [predicted_class |-> class,
         predicted_label |-> CLASS_NAMES[class + 1],
         confidence |-> Norm(probabilities[1], ProbUnits),
         probabilities |-> probabilities]

\* Lines 50-63, for the probabilities model.predict gave (in units of
\* 1 / ProbUnits).
PredictSingle(probabilities) ==
    LET class == ArgMax(probabilities)
    IN  [predicted_class |-> class,
         predicted_label |-> CLASS_NAMES[class + 1],
         confidence |-> Norm(probabilities[class + 1], ProbUnits),
         probabilities |-> probabilities]

\* Variant: every threshold is compared with >.
GetConfidenceLevelStrict(confidence) ==
    IF FGt(confidence, <<9, 10>>) THEN "Very High"
    ELSE IF FGt(confidence, <<3, 4>>) THEN "High"
    ELSE IF FGt(confidence, <<3, 5>>) THEN "Medium"
    ELSE "Low"

\* Lines 106-113.
GetConfidenceLevel(confidence) ==
    IF FLe(<<9, 10>>, confidence) THEN "Very High"
    ELSE IF FLe(<<3, 4>>, confidence) THEN "High"
    ELSE IF FLe(<<3, 5>>, confidence) THEN "Medium"
    ELSE "Low"

\* Variant: a class beyond either end of the table gets the nearest entry.
EntryClamped(key) ==
    IF key < 0 THEN 0
    ELSE IF key > NumClasses - 1 THEN NumClasses - 1
    ELSE key

\* table.get(key, table[0]) for a table with the keys 0..4: the
\* class whose entry is returned.
Entry(key) ==
    IF key \in 0..(NumClasses - 1) THEN key ELSE 0

\* a < b for two numbers, as Python compares them.
FLt(a, b) == FLe(a, b) /\ a # b

\* get_recommendation, lines 127-165: the entry returned, with its note.
GetRecommendation(class, confidence) ==
    [entry |-> Entry(class),
     note |-> IF FLt(confidence, <<7, 10>>) THEN "Low confidence"
              ELSE IF FLt(confidence, <<17, 20>>) THEN "Medium confidence"
              ELSE "High confidence"]

\* interpret_prediction_simple, lines 178-198: the entry returned, and whether
\* the double-check sentence is appended.
InterpretPredictionSimple(prediction) ==
    [entry |-> Entry(prediction.predicted_class),
     warning |-> FLt(prediction.confidence, <<7, 10>>)]

\* get_patient_explanation, lines 363-409: the entry returned, and whether the
\* low-confidence note is appended.
GetPatientExplanation(prediction) ==
    [entry |-> Entry(prediction.predicted_class),
     warning |-> FLt(prediction.confidence, <<7, 10>>)]

\* get_next_steps, lines 416-461.
GetNextSteps(class, confidence) ==
    [entry |-> Entry(class)]

\* The confidence scores explored: a grid over [0, 1] and every threshold the
\* functions compare with.
Confidences ==
    {Norm(k, ConfUnits) : k \in 0..ConfUnits}
        \cup {<<3, 5>>, <<7, 10>>, <<3, 4>>, <<17, 20>>, <<9, 10>>}

\* The classes explored: 0..4 and some on either side.
ClassArgs == (0 - MaxOutside)..(NumClasses - 1 + MaxOutside)

TextFunctions ==
    {"get_recommendation", "interpret_prediction_simple", "get_patient_explanation",
     "get_next_steps"}

UInit ==
    /\ upc = "call"
    /\ uret = NoResult
    /\ \/ /\ ufn = "predict_single"
          /\ \E p \in ProbVectors : uarg = [NoArg EXCEPT !.probabilities = p]
       \/ /\ ufn = "get_confidence_level"
          /\ \E c \in Confidences : uarg = [NoArg EXCEPT !.confidence = c]
       \/ /\ ufn \in TextFunctions
          /\ \E k \in ClassArgs, c \in Confidences :
                 uarg = [NoArg EXCEPT !.predicted_class = k, !.confidence = c]

UReturn(v) ==
    /\ uret' = v
    /\ upc' = "returned"
    /\ UNCHANGED <<ufn, uarg>>
    /\ UNCHANGED <<gvars, ovars, rvars>>
    /\ UNCHANGED <<fvars, bvars, pvars>>

PredictSingleCall ==
    /\ upc = "call" /\ ufn = "predict_single"
    /\ UReturn(PredictSingle(uarg.probabilities))

GetConfidenceLevelCall ==
    /\ upc = "call" /\ ufn = "get_confidence_level"
    /\ UReturn([level |-> GetConfidenceLevel(uarg.confidence)])

GetRecommendationCall ==
    /\ upc = "call" /\ ufn = "get_recommendation"
    /\ UReturn(GetRecommendation(uarg.predicted_class, uarg.confidence))

InterpretPredictionSimpleCall ==
    /\ upc = "call" /\ ufn = "interpret_prediction_simple"
    /\ UReturn(InterpretPredictionSimple(uarg))

GetPatientExplanationCall ==
    /\ upc = "call" /\ ufn = "get_patient_explanation"
    /\ UReturn(GetPatientExplanation(uarg))

GetNextStepsCall ==
    /\ upc = "call" /\ ufn = "get_next_steps"
    /\ UReturn(GetNextSteps(uarg.predicted_class, uarg.confidence))

InitUtils == GIdle /\ OIdle /\ RIdle /\ UInit /\ FIdle /\ BIdle /\ PIdle

NextUtils ==
    \/ PredictSingleCall
    \/ GetConfidenceLevelCall
    \/ GetRecommendationCall
    \/ InterpretPredictionSimpleCall
    \/ GetPatientExplanationCall
    \/ GetNextStepsCall

SpecUtils == InitUtils /\ [][NextUtils]_vars

(***************************************************************************)
(* format_explanation_text_to_html (html_generator.py, the definition of   *)
(* lines 83-151, which replaces the identical one of lines 11-80).         *)
(***************************************************************************)
\* A stripped line, by what the loop asks of it: whether it is empty, whether
\* it is the title "EYE SCREENING REPORT", whether line.isupper() and
\* len(line) > 3 both hold, and its first character.
Firsts == {"bullet", "check", "warning", "equals", "dash", "other"}

EmptyLine == [empty |-> TRUE, title |-> FALSE, upper |-> FALSE, first |-> "other"]

TitleLine == [empty |-> FALSE, title |-> TRUE, upper |-> TRUE, first |-> "other"]

Lines ==
    {EmptyLine, TitleLine}
        \cup [empty : {FALSE}, title : {FALSE}, upper : BOOLEAN, first : Firsts]

\* The branch conditions of lines 109, 121 and 130.
IsHeader(line) == line.upper /\ line.first # "bullet"

IsBullet(line) == line.first \in {"bullet", "check", "warning"}

IsParagraph(line) == ~line.empty /\ line.first \notin {"equals", "dash"}

NextLine == lines[line_no + 1]

FInit ==
    /\ fpc = "loop"
    /\ \E n \in 0..MaxLines : lines \in [1..n -> Lines]
    /\ line_no = 0
    /\ html = <<>>
    /\ current_section = FALSE
    /\ in_list = FALSE

FOthers == <<gvars, ovars, rvars, uvars, bvars, pvars>>

\* html with the list closed if one is open (lines 110-112, 131-133, 145-146).
ListClosed == IF in_list THEN Append(html, "</ul>") ELSE html

\* Lines 99-106 and the lines no branch takes: nothing is appended.
SkipLine ==
    /\ fpc = "loop" /\ line_no < Len(lines)
    /\ \/ NextLine.empty
       \/ NextLine.title
       \/ ~IsHeader(NextLine) /\ ~IsBullet(NextLine) /\ ~IsParagraph(NextLine)
    /\ line_no' = line_no + 1
    /\ UNCHANGED <<fpc, lines, html, current_section, in_list>>
    /\ UNCHANGED FOthers

\* Lines 109-118: a section header closes the open list and opens a div; a
\* separator line in capitals only closes the open list.
HeaderLine ==
    /\ fpc = "loop" /\ line_no < Len(lines)
    /\ ~NextLine.empty /\ ~NextLine.title /\ IsHeader(NextLine)
    /\ in_list' = FALSE
    /\ IF NextLine.first \in {"equals", "dash"}
       THEN html' = ListClosed /\ UNCHANGED current_section
       ELSE html' = Append(ListClosed, "<div>") /\ current_section' = TRUE
    /\ line_no' = line_no + 1
    /\ UNCHANGED <<fpc, lines>>
    /\ UNCHANGED FOthers

\* Variant: a bullet always opens a list.
BulletLineAlwaysOpening ==
    /\ fpc = "loop" /\ line_no < Len(lines)
    /\ ~NextLine.empty /\ ~NextLine.title /\ ~IsHeader(NextLine) /\ IsBullet(NextLine)
    /\ html' = html \o <<"<ul>", "<li>">>
    /\ in_list' = TRUE
    /\ line_no' = line_no + 1
    /\ UNCHANGED <<fpc, lines, current_section>>
    /\ UNCHANGED FOthers

\* Lines 121-127: a bullet opens a list if none is open and adds an item.
BulletLine ==
    /\ fpc = "loop" /\ line_no < Len(lines)
    /\ ~NextLine.empty /\ ~NextLine.title /\ ~IsHeader(NextLine) /\ IsBullet(NextLine)
    /\ html' = (IF in_list THEN html ELSE Append(html, "<ul>")) \o <<"<li>">>
    /\ in_list' = TRUE
    /\ line_no' = line_no + 1
    /\ UNCHANGED <<fpc, lines, current_section>>
    /\ UNCHANGED FOthers

\* Lines 130-143: a paragraph closes the open list.
ParagraphLine ==
    /\ fpc = "loop" /\ line_no < Len(lines)
    /\ ~NextLine.empty /\ ~NextLine.title /\ ~IsHeader(NextLine) /\ ~IsBullet(NextLine)
    /\ IsParagraph(NextLine)
    /\ html' = Append(ListClosed, "<p>")
    /\ in_list' = FALSE
    /\ line_no' = line_no + 1
    /\ UNCHANGED <<fpc, lines, current_section>>
    /\ UNCHANGED FOthers

\* Lines 145-151: after the loop the open list is closed, and one </div> is
\* appended if any section header was seen.
FinishFormat ==
    /\ fpc = "loop" /\ line_no = Len(lines)
    /\ html' = IF current_section THEN Append(ListClosed, "</div>") ELSE ListClosed
    /\ fpc' = "returned"
    /\ UNCHANGED <<lines, line_no, current_section, in_list>>
    /\ UNCHANGED FOthers

InitFormat == GIdle /\ OIdle /\ RIdle /\ UIdle /\ FInit /\ BIdle /\ PIdle

NextFormat ==
    \/ SkipLine
    \/ HeaderLine
    \/ BulletLine
    \/ ParagraphLine
    \/ FinishFormat

SpecFormat == InitFormat /\ [][NextFormat]_vars

(***************************************************************************)
(* load_batch_images and load_image (data_utils.py).                       *)
(***************************************************************************)
\* An image id is a file stem, given with or without the ".png" extension.
ImageIds == [stem : 1..MaxStems, png : BOOLEAN]

\* Lines 60-63: the file name, with ".png" added unless the id ends with it.
ImagePath(image_id) ==
    IF ~image_id.png THEN [image_id EXCEPT !.png = TRUE] ELSE image_id

\* What image_dir holds under each name: nothing, an image, or a file
\* Image.open cannot read.
FileStates == {"missing", "image", "unreadable"}

\* load_image, lines 60-77: the image of the file, FileNotFoundError for a
\* missing file, and Image.open's error for an unreadable one.
LoadImageOf(image_id, dir) ==
    LET image_path == ImagePath(image_id)
    IN  IF dir[image_path.stem] = "missing"
        THEN [raised |-> "FileNotFoundError", image |-> 0]
        ELSE IF dir[image_path.stem] = "unreadable"
        THEN [raised |-> "UnidentifiedImageError", image |-> 0]
        ELSE [raised |-> "none", image |-> image_path.stem]

BInit ==
    /\ bpc = "loop"
    /\ \E n \in 0..MaxIds : image_ids \in [1..n -> ImageIds]
    /\ files \in [1..MaxStems -> FileStates]
    /\ id_no = 0
    /\ images = <<>>
    /\ berr = "none"

BOthers == <<gvars, ovars, rvars, uvars, fvars, pvars>>

NextId == image_ids[id_no + 1]

\* Lines 98-100: the image is loaded and appended.
AppendImage ==
    /\ bpc = "loop" /\ id_no < Len(image_ids)
    /\ LoadImageOf(NextId, files).raised = "none"
    /\ images' = Append(images, LoadImageOf(NextId, files).image)
    /\ id_no' = id_no + 1
    /\ UNCHANGED <<bpc, image_ids, files, berr>>
    /\ UNCHANGED BOthers

\* Variant: a missing file ends the loop.
SkipMissingBreaking ==
    /\ bpc = "loop" /\ id_no < Len(image_ids)
    /\ LoadImageOf(NextId, files).raised = "FileNotFoundError"
    /\ id_no' = Len(image_ids)
    /\ UNCHANGED <<bpc, image_ids, files, images, berr>>
    /\ UNCHANGED BOthers

\* Lines 101-103: FileNotFoundError is caught, a warning is printed and the
\* loop goes on with the next id.
SkipMissing ==
    /\ bpc = "loop" /\ id_no < Len(image_ids)
    /\ LoadImageOf(NextId, files).raised = "FileNotFoundError"
    /\ id_no' = id_no + 1
    /\ UNCHANGED <<bpc, image_ids, files, images, berr>>
    /\ UNCHANGED BOthers

\* Line 99: any other exception of load_image leaves load_batch_images.
PropagateError ==
    /\ bpc = "loop" /\ id_no < Len(image_ids)
    /\ LoadImageOf(NextId, files).raised \notin {"none", "FileNotFoundError"}
    /\ bpc' = "raised"
    /\ berr' = LoadImageOf(NextId, files).raised
    /\ UNCHANGED <<image_ids, files, id_no, images>>
    /\ UNCHANGED BOthers

\* Line 105.
ReturnBatch ==
    /\ bpc = "loop" /\ id_no = Len(image_ids)
    /\ bpc' = "returned"
    /\ UNCHANGED <<image_ids, files, id_no, images, berr>>
    /\ UNCHANGED BOthers

InitBatch == GIdle /\ OIdle /\ RIdle /\ UIdle /\ FIdle /\ BInit /\ PIdle

NextBatch ==
    \/ AppendImage
    \/ SkipMissing
    \/ PropagateError
    \/ ReturnBatch

SpecBatch == InitBatch /\ [][NextBatch]_vars

(***************************************************************************)
(* main, create_combined_html and html_to_pdf                              *)
(* (generate_local_pdf_from_html.py).                                      *)
(***************************************************************************)
\* One run: whether outputs/patient_reports exists, how many *_report.html
\* files it holds, whether reading them raises, whether opening or writing
\* temp_combined_report.html raises, and whether html_to_pdf succeeds (it
\* returns False for every exception of the conversion).
PdfEnvs ==
    [dir_exists : BOOLEAN, reports : 0..MaxReports, read : {"ok", "raises"},
     write : {"ok", "open_raises", "write_raises"}, convert : {"ok", "fails"}]

PInit ==
    /\ ppc = "check_dir"
    /\ penv \in PdfEnvs
    /\ temp_exists = FALSE
    /\ pdf_exists = FALSE
    /\ exit_status = NoExit

POthers == <<gvars, ovars, rvars, uvars, fvars, bvars>>

\* sys.exit(status), or main returning (status 0).
Exit(status) ==
    /\ ppc' = "exited"
    /\ exit_status' = status

\* Lines 598-603: without the reports directory the run ends with status 1.
CheckDirectory ==
    /\ ppc = "check_dir"
    /\ IF penv.dir_exists
       THEN ppc' = "list_reports" /\ UNCHANGED exit_status
       ELSE Exit(1)
    /\ UNCHANGED <<penv, temp_exists, pdf_exists>>
    /\ UNCHANGED POthers

\* create_combined_html, lines 23-31: sys.exit(1) with fewer than two
\* reports; SystemExit is not an Exception, so line 640 does not catch it.
ListReports ==
    /\ ppc = "list_reports"
    /\ IF penv.reports < 2
       THEN Exit(1)
       ELSE ppc' = "read_reports" /\ UNCHANGED exit_status
    /\ UNCHANGED <<penv, temp_exists, pdf_exists>>
    /\ UNCHANGED POthers

\* create_combined_html, lines 41-45: the two reports are read.
ReadReports ==
    /\ ppc = "read_reports"
    /\ ppc' = IF penv.read = "ok" THEN "write_html" ELSE "handler"
    /\ UNCHANGED <<penv, temp_exists, pdf_exists, exit_status>>
    /\ UNCHANGED POthers

\* create_combined_html, lines 434-438: the combined HTML is written; the
\* file is on disk as soon as open succeeded.
WriteCombinedHtml ==
    /\ ppc = "write_html"
    /\ temp_exists' = (penv.write # "open_raises")
    /\ ppc' = IF penv.write = "ok" THEN "convert" ELSE "handler"
    /\ UNCHANGED <<penv, pdf_exists, exit_status>>
    /\ UNCHANGED POthers

\* Line 617: html_to_pdf gives True when the PDF was written, False otherwise.
ConvertToPdf ==
    /\ ppc = "convert"
    /\ pdf_exists' = (penv.convert = "ok")
    /\ ppc' = IF penv.convert = "ok" THEN "success" ELSE "failure"
    /\ UNCHANGED <<penv, temp_exists, exit_status>>
    /\ UNCHANGED POthers

\* Lines 619-634: the temporary file is deleted and main returns.
CleanUpOnSuccess ==
    /\ ppc = "success"
    /\ temp_exists' = FALSE
    /\ Exit(0)
    /\ UNCHANGED <<penv, pdf_exists>>
    /\ UNCHANGED POthers

\* Lines 636-638: two messages are printed and main returns.
ReportFailure ==
    /\ ppc = "failure"
    /\ Exit(0)
    /\ UNCHANGED <<penv, temp_exists, pdf_exists>>
    /\ UNCHANGED POthers

\* Lines 640-647: the temporary file is deleted and the run ends with status 1.
HandleException ==
    /\ ppc = "handler"
    /\ temp_exists' = FALSE
    /\ Exit(1)
    /\ UNCHANGED <<penv, pdf_exists>>
    /\ UNCHANGED POthers

InitPdf == GIdle /\ OIdle /\ RIdle /\ UIdle /\ FIdle /\ BIdle /\ PInit

NextPdf ==
    \/ CheckDirectory
    \/ ListReports
    \/ ReadReports
    \/ WriteCombinedHtml
    \/ ConvertToPdf
    \/ CleanUpOnSuccess
    \/ ReportFailure
    \/ HandleException

SpecPdf == InitPdf /\ [][NextPdf]_vars

(***************************************************************************)
(* Properties of get_gradcam_heatmap.                                      *)
(***************************************************************************)
Elems(t) == 1..Len(t.data)

ConvLayers == {i \in 1..Len(model.layers) : IsConv(model.layers[i])}

\* The feature map is all ones and the Channel Importance Vector all 0.5.
IsScenario ==
    /\ conv_outputs = Const(<<7, 7, 32>>, One)
    /\ pooled_grads = Const(<<32>>, <<1, 2>>)

\* C1: whenever the maximum of the channel-weighted feature sum is zero, the
\* returned heatmap is zero everywhere (no NaN from a division by that zero).
C1_ZeroMaxGivesZeroMap ==
    (pc = "returned" /\ MaxOf(raw.data, Len(raw.data)) = Zero)
        => \A i \in Elems(ret) : ret.data[i] = Zero

\* C2: whenever every entry of the Channel Importance Vector is non-positive,
\* the returned heatmap is zero everywhere.
C2_NonPositiveImportanceGivesZeroMap ==
    (pc = "returned" /\ \A k \in Elems(pooled_grads) : FLe(pooled_grads.data[k], Zero))
        => \A i \in Elems(ret) : ret.data[i] = Zero

\* C3: when the channel-weighted feature sum has a strictly positive entry,
\* every element of the returned heatmap lies in [0, 1] and one equals 1.
C3_NormalizedRange ==
    (pc = "returned" /\ \E i \in Elems(raw) : FGt(raw.data[i], Zero))
        => /\ \A i \in Elems(ret) : FLe(Zero, ret.data[i]) /\ FLe(ret.data[i], One)
           /\ \E i \in Elems(ret) : ret.data[i] = One

\* A returned heatmap with a proper fraction beside the 1.
C3_Witness ==
    /\ pc = "returned"
    /\ \E i \in Elems(raw) : FGt(raw.data[i], Zero)
    /\ \E i \in Elems(ret) : ret.data[i] = <<1, 2>>
    /\ \E i \in Elems(ret) : ret.data[i] = One

\* C4: with no layer name supplied, the instrumented layer has a four-axis
\* output and no later layer of the model has one.
C4_LastFourAxisLayer ==
    (call.last_conv_layer_name = NoName /\ ConvLayers # {}
     /\ pc \notin {"select_layer", "grad_model"})
        => /\ layer \in ConvLayers
           /\ model.layers[layer].name = last_conv_layer_name
           /\ \A j \in ConvLayers : j <= layer

\* Two four-axis layers, the later one instrumented, a dense layer after it.
C4_Witness ==
    /\ call.last_conv_layer_name = NoName
    /\ pc = "forward"
    /\ Cardinality(ConvLayers) >= 2
    /\ layer \in ConvLayers
    /\ layer < Len(model.layers)

\* C5: with no layer name supplied and no four-axis layer in the model, the
\* call fails with the explicit LayerNotFound condition and returns nothing.
C5_NoLayerRaisesLayerNotFound ==
    (call.last_conv_layer_name = NoName /\ ConvLayers = {}
     /\ pc \notin {"select_layer", "grad_model"})
        => pc = "raised" /\ err = "LayerNotFound" /\ ret = NoTensor

\* C6: with no target class supplied, the class differentiated is the index
\* of the largest probability, the lowest such index when several are largest.
C6_ArgmaxLowestIndex ==
    (call.pred_class = NoClass /\ pc \in {"gradient", "pool", "weight", "normalize", "returned"})
        => /\ class_channel \in 0..(NumClasses - 1)
           /\ \A j \in 1..NumClasses :
                  /\ net.predictions[j] <= net.predictions[class_channel + 1]
                  /\ j < class_channel + 1
                         => net.predictions[j] < net.predictions[class_channel + 1]

\* Two classes tie for the largest probability; the lower one is differentiated.
C6_Witness ==
    /\ call.pred_class = NoClass
    /\ pc = "gradient"
    /\ \E j \in 1..NumClasses :
           /\ j > class_channel + 1
           /\ net.predictions[j] = net.predictions[class_channel + 1]

\* C7: the returned array has shape (H', W') for a feature map of shape
\* (1, H', W', C), also when H' = 1 or W' = 1.
C7_ShapeIsSpatialSize ==
    pc = "returned"
        => ret.shape = <<model.layers[layer].output_shape[2],
                         model.layers[layer].output_shape[3]>>

\* C8: in the (7, 7, 32) scenario the returned heatmap is 7 x 7 and 1.0 everywhere.
C8_ScenarioNormalizedOnes ==
    (pc = "returned" /\ IsScenario) => ret = Const(<<7, 7>>, One)

C8_Witness == pc = "returned" /\ IsScenario /\ ret.shape = <<7, 7>>

\* C9 as claimed: in the (7, 7, 32) scenario the raw heatmap, before clipping
\* and normalization, is 112 at every pixel.
C9_ScenarioRaw112 ==
    (pc = "normalize" /\ IsScenario) => \A i \in Elems(heatmap) : heatmap.data[i] = F(112)

\* C9 as amended: in the (7, 7, 32) scenario the raw heatmap, before clipping
\* and normalization, is 32 * 0.5 = 16 at every pixel.
C9_ScenarioRaw16 ==
    (pc = "normalize" /\ IsScenario) => heatmap = Const(<<7, 7>>, F(16))

C9_Witness == pc = "normalize" /\ IsScenario /\ Len(heatmap.data) = 49

(***************************************************************************)
(* Properties of overlay_heatmap.                                          *)
(***************************************************************************)
\* Some value of the caller's image exceeds 1 (a [0, 255] image).
ImageExceedsOne == \E j \in Elems(arg_image) : FGt(arg_image.data[j], One)

\* C10 as claimed: with alpha = 0 the output is the caller's image, unchanged,
\* for [0, 1] images and for [0, 255] images.
C10_AlphaZeroReturnsImage ==
    (opc = "returned" /\ alpha = Zero) => overlaid_image = arg_image

\* C10 as amended: with alpha = 0 the output is the image as line 86-87 scale
\* it: unchanged when no value exceeds 1, divided by 255 otherwise.
C10_AlphaZeroReturnsScaledImage ==
    (opc = "returned" /\ alpha = Zero)
        => /\ overlaid_image.shape = arg_image.shape
           /\ \A k \in Elems(arg_image) :
                  overlaid_image.data[k] =
                      IF ImageExceedsOne THEN Norm(arg_image.data[k][1], 255 * arg_image.data[k][2])
                      ELSE arg_image.data[k]

\* A [0, 255] image blended with alpha = 0 over a two-pixel heatmap.
C10_Witness ==
    /\ opc = "returned"
    /\ alpha = Zero
    /\ ImageExceedsOne
    /\ Len(arg_heatmap.data) >= 2
    /\ overlaid_image # arg_image

\* The colour layer overlay_heatmap builds from the heatmap and the image's
\* height and width alone.
Rendering ==
    Colorize(Resize(ocall.heatmap, ocall.image.shape[2], ocall.image.shape[1]))

\* C11: with alpha = 1 the output is the colour-mapped, resized heatmap and
\* nothing else, so two images of one size under one heatmap give one output.
C11_AlphaOneReturnsRendering ==
    (opc = "returned" /\ alpha = One)
        => /\ overlaid_image = hmap
           /\ overlaid_image = Rendering

\* A [0, 255] image blended with alpha = 1: the output is not the image.
C11_Witness ==
    /\ opc = "returned"
    /\ alpha = One
    /\ ImageExceedsOne
    /\ Len(ocall.image.data) >= 6
    /\ overlaid_image # image

\* C12: whatever the heatmap's resolution, the heatmap is brought to the
\* image's height and width and the output has that height and width.
C12_OutputHasImageSize ==
    /\ opc \in {"colorize", "rescale", "blend", "returned"}
        => /\ hmap.shape[1] = ocall.image.shape[1]
           /\ hmap.shape[2] = ocall.image.shape[2]
    /\ opc = "returned"
        => /\ overlaid_image.shape = ocall.image.shape
           /\ Len(overlaid_image.data) = Prod(ocall.image.shape)

\* A 1 x 2 image under a 2 x 1 heatmap.
C12_Witness ==
    /\ opc = "returned"
    /\ ocall.image.shape[1] # ocall.image.shape[2]
    /\ ocall.heatmap.shape[1] = ocall.image.shape[2]
    /\ ocall.heatmap.shape[2] = ocall.image.shape[1]

InUnit(x) == FLe(Zero, x) /\ FLe(x, One)

\* C13: an image in [0, 1] or [0, 255], a heatmap in [0, 1] and a weight
\* strictly between 0 and 1 give an output with every value in [0, 1].
C13_OutputInUnitRange ==
    (/\ opc = "returned"
     /\ FGt(alpha, Zero) /\ FGt(One, alpha)
     /\ \A j \in Elems(ocall.image) :
            FLe(Zero, ocall.image.data[j]) /\ FLe(ocall.image.data[j], F(255))
     /\ \A j \in Elems(ocall.heatmap) : InUnit(ocall.heatmap.data[j]))
        => \A k \in Elems(overlaid_image) : InUnit(overlaid_image.data[k])

\* A [0, 255] image blended with the default weight 0.4.
C13_Witness ==
    /\ opc = "returned"
    /\ alpha = <<2, 5>>
    /\ \E j \in Elems(ocall.image) : ocall.image.data[j] = F(255)
    /\ \E k \in Elems(overlaid_image) :
           FGt(overlaid_image.data[k], Zero) /\ FGt(One, overlaid_image.data[k])

\* N(image) of C14: image / 255 exactly when some value exceeds 1.
Normalised(k) ==
    IF \E j \in Elems(ocall.image) : FGt(ocall.image.data[j], One)
    THEN Norm(ocall.image.data[k][1], 255 * ocall.image.data[k][2])
    ELSE ocall.image.data[k]

\* C14: the output is colormap_image * alpha + N(image) * (1 - alpha).
C14_BlendFormula ==
    opc = "returned"
        => \A k \in Elems(overlaid_image) :
               LET c == FMul(hmap.data[k], alpha)
                   i == FMul(Normalised(k), Norm(alpha[2] - alpha[1], alpha[2]))
               IN  overlaid_image.data[k] = Norm(c[1] * i[2] + i[1] * c[2], c[2] * i[2])

\* An image whose largest value is exactly 1, blended half and half.
C14_Witness ==
    /\ opc = "returned"
    /\ alpha = <<1, 2>>
    /\ \A j \in Elems(ocall.image) : ocall.image.data[j] = One
    /\ Len(ocall.image.data) >= 6

\* C18: overlay_heatmap leaves the caller's image, heatmap and weight as they
\* were at entry, at every step and when it returns.
C18_ArgumentsUnchanged ==
    opc # "idle"
        => /\ arg_image = ocall.image
           /\ arg_heatmap = ocall.heatmap
           /\ alpha = ocall.alpha

\* A call that rescaled its local image and resized its local heatmap.
C18_Witness ==
    /\ opc = "returned"
    /\ image # arg_image
    /\ hmap.shape # arg_heatmap.shape \o <<3>>

\* C20: an all-zero heatmap is rendered in one colour, the colour map's
\* colour for index 0 (red 0, green 0, blue 128), at every pixel.
C20_ZeroHeatmapIsUniform ==
    (/\ opc \in {"rescale", "blend", "returned"}
     /\ \A j \in Elems(ocall.heatmap) : ocall.heatmap.data[j] = Zero)
        => \A p \in 1..(Len(hmap.data) \div 3) :
               <<hmap.data[3 * p - 2], hmap.data[3 * p - 1], hmap.data[3 * p]>>
                   = <<Zero, Zero, <<128, 255>>>>

\* A one-cell zero heatmap spread over a two-pixel image.
C20_Witness ==
    /\ opc = "returned"
    /\ \A j \in Elems(ocall.heatmap) : ocall.heatmap.data[j] = Zero
    /\ Len(ocall.heatmap.data) = 1
    /\ Len(hmap.data) = 6

\* C16 as claimed: a call whose image does not have the classifier's height
\* and width never reaches the forward pass of line 41, and what it raises is
\* ImageShapeMismatch.
C16_MismatchRaisedBeforeForward ==
    (pc # "idle" /\ ~ShapeFits(call.model, call.image))
        => /\ pc \in {"select_layer", "grad_model", "raised"}
           /\ pc = "raised" => err = "ImageShapeMismatch"

\* C19: at every step of a call, and when it has returned or raised, the
\* classifier's layers and their weights are those it was called with, and
\* the classifier answers the image as it did at entry.
C19_ClassifierUnchanged ==
    pc # "idle"
        => /\ model = call.model
           /\ classifier[call.image.id] = net

\* A call that ran the forward pass and the differentiation and then failed.
C19_Witness ==
    /\ pc = "raised"
    /\ layer # 0
    /\ class_channel # NoClass
    /\ Len(model.layers) >= 2

\* The calls that have returned or raised, in order.
Completed ==
    IF pc \in {"returned", "raised"}
    THEN Append(log, [call |-> call, pc |-> pc, ret |-> ret, err |-> err])
    ELSE log

\* C17: two calls with the same classifier, image, target class and layer
\* name have the same outcome (the same heatmap, or the same failure),
\* whatever calls were made before or between them.
C17_SameCallSameHeatmap ==
    \A i, j \in 1..Len(Completed) :
        Completed[i].call = Completed[j].call => Completed[i] = Completed[j]

\* The third call repeats the first, after a different second call that
\* returned a different heatmap.
C17_Witness ==
    /\ pc = "returned"
    /\ Len(log) = 2
    /\ log[1].call = call
    /\ log[2].call # call
    /\ log[2].pc = "returned"
    /\ log[2].ret # ret
    /\ \E k \in Elems(ret) : IsFinite(ret.data[k]) /\ FGt(ret.data[k], Zero)

(***************************************************************************)
(* Properties of generate_single_patient_report.                           *)
(***************************************************************************)
\* C15 as claimed: when the differentiation step of the Grad-CAM call fails,
\* the pipeline reports the failure to its caller (it returns False and writes
\* no report) and does not call the step again.
C15_GradientFailureIsFatal ==
    (rpc = "done" /\ gradcam_error = "GradientComputationFailed")
        => /\ result = FALSE
           /\ report = NoReport
           /\ gradcam_calls = 1

\* C21 as claimed: the call ends with True exactly when a report was written
\* and with False otherwise; with a file missing it ends with False without
\* loading the model or writing a report; and whenever a step after the file
\* checks raised, it ends with False.
C21_FalseOnEveryException ==
    rpc # "idle"
        => /\ (~env.model_exists \/ ~env.image_exists)
                  => /\ rpc \in {"check_files", "done"}
                     /\ report = NoReport
                     /\ rpc = "done" => result = FALSE
           /\ rpc = "done"
                  => /\ result \in BOOLEAN
                     /\ result = TRUE <=> report.written
                     /\ env.load_model = "raises" => result = FALSE
                     /\ env.predict = "raises" => result = FALSE
                     /\ env.render = "raises" => result = FALSE
                     /\ gradcam_error # "none" => result = FALSE

(***************************************************************************)
(* Properties of the functions that map a prediction to a label, a level   *)
(* or a text.                                                              *)
(***************************************************************************)
\* C22: predict_single returns as predicted_class an index of the largest
\* probability, as confidence the probability at that index (so no
\* probability exceeds it) and as predicted_label that class's name.
C22_PredictSingleIsArgmax ==
    (upc = "returned" /\ ufn = "predict_single")
        => LET p == uarg.probabilities
               i == uret.predicted_class + 1
           IN  /\ i \in 1..Len(p)
               /\ \A j \in 1..Len(p) : p[j] <= p[i]
               /\ uret.confidence[1] * ProbUnits = p[i] * uret.confidence[2]
               /\ \A j \in 1..Len(p) :
                      p[j] * uret.confidence[2] <= uret.confidence[1] * ProbUnits
               /\ uret.predicted_label = CLASS_NAMES[i]

\* Two classes share the largest probability, and the first class is not one
\* of them.
C22_Witness ==
    /\ upc = "returned"
    /\ ufn = "predict_single"
    /\ uret.predicted_class = 1
    /\ uarg.probabilities[2] = uarg.probabilities[4]
    /\ uarg.probabilities[1] < uarg.probabilities[2]

\* C23: get_confidence_level returns one of four levels for every confidence
\* in [0, 1]: "Very High" exactly from 0.9 up, "High" exactly in [0.75, 0.9),
\* "Medium" exactly in [0.6, 0.75) and "Low" exactly below 0.6.
C23_ConfidenceLevels ==
    (upc = "returned" /\ ufn = "get_confidence_level")
        => LET n == uarg.confidence[1]
               d == uarg.confidence[2]
           IN  /\ uret.level \in {"Very High", "High", "Medium", "Low"}
               /\ uret.level = "Very High" <=> 10 * n >= 9 * d
               /\ uret.level = "High" <=> (4 * n >= 3 * d /\ 10 * n < 9 * d)
               /\ uret.level = "Medium" <=> (5 * n >= 3 * d /\ 4 * n < 3 * d)
               /\ uret.level = "Low" <=> 5 * n < 3 * d

\* A confidence of exactly 0.9.
C23_Witness ==
    /\ upc = "returned"
    /\ ufn = "get_confidence_level"
    /\ uarg.confidence = <<9, 10>>
    /\ uret.level = "Very High"

\* C29: for a predicted_class outside 0..4 each of the four text functions
\* returns, without an error, the entry of class 0.
C29_UnknownClassGetsClassZero ==
    (upc = "returned" /\ ufn \in TextFunctions
        /\ uarg.predicted_class \notin 0..(NumClasses - 1))
        => uret.entry = 0

\* get_patient_explanation for class 5.
C29_Witness ==
    /\ upc = "returned"
    /\ ufn = "get_patient_explanation"
    /\ uarg.predicted_class = NumClasses
    /\ uret.entry = 0

(***************************************************************************)
(* Properties of format_explanation_text_to_html.                          *)
(***************************************************************************)
Count(seq, tag) == Cardinality({k \in 1..Len(seq) : seq[k] = tag})

\* C25 as claimed: the returned markup has as many </div> tags as section
\* headers opened a div.
C25_EveryDivClosed ==
    fpc = "returned" => Count(html, "</div>") = Count(html, "<div>")

\* The number of lists open after the first k tags.
ListDepth(k) == Count(SubSeq(html, 1, k), "<ul>") - Count(SubSeq(html, 1, k), "</ul>")

\* C26: at most one list is open at any point of the markup; a <ul> comes only
\* when none is open, a <li> and a </ul> only when one is; no list is open
\* where a section header or a paragraph starts, or when the function returns.
C26_ListsBalancedNeverNested ==
    /\ \A k \in 1..Len(html) :
           /\ ListDepth(k) \in {0, 1}
           /\ html[k] = "<ul>" => ListDepth(k - 1) = 0
           /\ html[k] \in {"<li>", "</ul>"} => ListDepth(k - 1) = 1
           /\ html[k] \in {"<div>", "<p>"} => ListDepth(k - 1) = 0
    /\ fpc = "returned" => ListDepth(Len(html)) = 0
    /\ fpc = "loop" => (in_list <=> ListDepth(Len(html)) = 1)

\* Two lists with a section header between them.
C26_Witness ==
    /\ fpc = "returned"
    /\ Count(html, "<ul>") = 2
    /\ Count(html, "<div>") = 1
    /\ Count(html, "<li>") = 2

(***************************************************************************)
(* Properties of load_batch_images.                                        *)
(***************************************************************************)
\* The file an id names is there.
Exists(image_id) == files[image_id.stem] # "missing"

\* The stems of the ids among the first n whose files are there, in order.
RECURSIVE ExistingUpTo(_)
ExistingUpTo(n) ==
    IF n = 0 THEN <<>>
    ELSE IF Exists(image_ids[n]) THEN Append(ExistingUpTo(n - 1), image_ids[n].stem)
    ELSE ExistingUpTo(n - 1)

\* C24: load_batch_images never ends with FileNotFoundError, and what it
\* returns is the images of the ids whose files exist, in the order of the
\* ids: as many images as there are such ids.
C24_MissingFilesSkipped ==
    /\ berr # "FileNotFoundError"
    /\ bpc = "returned"
           => /\ images = ExistingUpTo(Len(image_ids))
              /\ Len(images) = Cardinality({k \in 1..Len(image_ids) : Exists(image_ids[k])})

\* A missing file first, then two ids of existing files, one given with the
\* extension and one without.
C24_Witness ==
    /\ bpc = "returned"
    /\ Len(image_ids) = 3
    /\ ~Exists(image_ids[1])
    /\ image_ids[2].png /\ ~image_ids[3].png
    /\ Len(images) = 2

(***************************************************************************)
(* Properties of generate_local_pdf_from_html.main.                        *)
(***************************************************************************)
\* C27 as claimed: a run that ends without explanation_local.pdf ends with a
\* non-zero exit status.
C27_NoPdfNonZeroExit ==
    (ppc = "exited" /\ ~pdf_exists) => exit_status # 0

\* C28 as claimed: when the run has ended, temp_combined_report.html is not
\* on disk.
C28_TempFileDeleted ==
    ppc = "exited" => ~temp_exists

====
